---- MODULE Spec2Model ----
(***************************************************************************)
(* fs-dedupe (src/index.ts): scan a directory tree, group files by the     *)
(* SHA-1 of their content and replace every copy by a relative symbolic    *)
(* link to the first member of its group.                                  *)
(*                                                                         *)
(* One process run is modelled step by step: every `await` of the source   *)
(* is a point where another pending callback may run first.  Several runs  *)
(* of the program over the same tree follow each other (Rerun).            *)
(***************************************************************************)
EXTENDS Integers, Sequences, FiniteSets, TLC

\* ------------------------------------------------------------------ bounds
NPaths == 4        \* the tree holds the first NPaths paths of Universe
NContents == 3     \* the files hold one of the first NContents contents
MaxRuns == 2       \* the program is started at most MaxRuns times
MaxCalls == 3      \* sha1() is called at most MaxCalls times on one handle

\* ------------------------------------------------------------------ paths
\* The tree, in the order glob reports matches (sorted).  A path is the
\* sequence of its components under "/".
Universe ==
    << <<"r", "a.txt">>,
       <<"r", "b.jpg">>,
       <<"r", "d", "a.txt">>,
       <<"r", "d", "c.txt">>,
       <<"r", "d", "e", "f.jpg">> >>

Min(a, b) == IF a < b THEN a ELSE b

Paths == {Universe[i] : i \in 1..Min(NPaths, Len(Universe))}

Basename(p) == p[Len(p)]

\* path.dirname
Dirname(p) == SubSeq(p, 1, Len(p) - 1)

RECURSIVE CommonPrefixLen(_, _)
CommonPrefixLen(a, b) ==
    IF a = <<>> \/ b = <<>> \/ Head(a) # Head(b) THEN 0
    ELSE 1 + CommonPrefixLen(Tail(a), Tail(b))

\* path.relative(from, to) for two absolute, normalised paths: one ".." for
\* every component of `from` below the common ancestor, then the rest of `to`.
Relative(from, to) ==
    LET n == CommonPrefixLen(from, to)
    IN  [i \in 1..(Len(from) - n) |-> ".."] \o SubSeq(to, n + 1, Len(to))

\* How the kernel resolves a relative symlink target against the directory
\* holding the link.
RECURSIVE Resolve(_, _)
Resolve(dir, rel) ==
    IF rel = <<>> THEN dir
    ELSE IF Head(rel) = ".."
         THEN Resolve(IF dir = <<>> THEN dir ELSE SubSeq(dir, 1, Len(dir) - 1),
                      Tail(rel))
         ELSE Resolve(Append(dir, Head(rel)), Tail(rel))

\* ------------------------------------------------------------- filesystem
AllContents == <<"hello", "world", "", "foo">>

Contents == {AllContents[i] : i \in 1..Min(NContents, Len(AllContents))}

\* crypto.createHash('sha1').update(buf).digest('hex') (first 8 hex digits)
Sha1(buf) ==
    CASE buf = "hello" -> "aaf4c61d"
      [] buf = "world" -> "7c211433"
      [] buf = ""      -> "da39a3ee"
      [] buf = "foo"   -> "0beec7b5"

RegularFile(c) == [kind |-> "file", content |-> c, target |-> <<>>]
SymLink(t)     == [kind |-> "link", content |-> "", target |-> t]
Missing        == [kind |-> "none", content |-> "", target |-> <<>>]

\* The entry a path names after following symbolic links (at most `fuel`
\* of them); Missing when the chain leaves the tree or dangles.
RECURSIVE Follow(_, _, _)
Follow(tree, p, fuel) ==
    IF p \notin DOMAIN tree THEN [path |-> p, entry |-> Missing]
    ELSE IF tree[p].kind = "link" /\ fuel > 0
         THEN Follow(tree, Resolve(Dirname(p), tree[p].target), fuel - 1)
         ELSE [path |-> p, entry |-> tree[p]]

\* fs.realpath
Realpath(tree, p) == Follow(tree, p, Cardinality(DOMAIN tree)).path

\* What fs.readFile(p) finds: the entry reached through the links.
ReadTarget(tree, p) == Follow(tree, p, Cardinality(DOMAIN tree)).entry

\* ------------------------------------------------------------------- glob
Patterns == {<<>>, <<"*.txt">>, <<"*.png">>}

Extname(name) ==
    CASE name = "a.txt" -> "txt"
      [] name = "c.txt" -> "txt"
      [] name = "b.jpg" -> "jpg"
      [] name = "f.jpg" -> "jpg"

\* minimatch of one file name against one pattern
MatchOne(pat, name) ==
    CASE pat = "*"     -> TRUE
      [] pat = "*.txt" -> Extname(name) = "txt"
      [] pat = "*.jpg" -> Extname(name) = "jpg"
      [] pat = "*.png" -> Extname(name) = "png"

\* Scanner's constructor: an empty pattern list becomes ['*'].
ScannerPatterns(pattern) == IF Len(pattern) = 0 THEN <<"*">> ELSE pattern

\* `**/+(p1|p2|...)`: the name matches any of the patterns
GlobMatch(pats, p) == \E i \in 1..Len(pats) : MatchOne(pats[i], Basename(p))

RECURSIVE SortedSeq(_, _)
SortedSeq(S, i) ==
    IF i > Len(Universe) THEN <<>>
    ELSE (IF Universe[i] \in S THEN <<Universe[i]>> ELSE <<>>)
         \o SortedSeq(S, i + 1)

\* scanFiles with realpath off: links are reported under their own paths
scanFiles_noRealpath(tree, pattern) ==
    LET pats == ScannerPatterns(pattern)
        hits == {p \in DOMAIN tree : tree[p].kind # "none" /\ GlobMatch(pats, p)}
    IN  SortedSeq(hits, 1)

\* Scanner.scanFiles: every entry that is not a directory and whose name
\* matches, links not followed during the walk (follow: false), each match
\* replaced by its real path (realpath: true; a dangling link keeps its own
\* path), duplicates folded, sorted.
scanFiles(tree, pattern) ==
    LET pats == ScannerPatterns(pattern)
        hits == {p \in DOMAIN tree : tree[p].kind # "none" /\ GlobMatch(pats, p)}
        real == {Realpath(tree, p) : p \in hits}
    IN  SortedSeq(real, 1)

\* ------------------------------------------------------------------ state
VARIABLES
    fs,              \* the tree: path -> entry
    options,         \* [dryRun, pattern]
    phase,           \* where run() stands
    files,           \* the DiscoveredFile handles, by index: their paths
    calculatedSha1,  \* handle -> cached digest, "" while undefined
    pc,              \* handle -> position of its detectDuplicate task
    duplicatesMap,   \* the Map, as its entry list in insertion order
    tasks,           \* group -> position of its createSymlinksForDuplicate
    out,             \* console lines
    fsLog,           \* unlink/symlink calls that completed, in order
    exitCode,        \* process exit status, -1 while running
    runNo,           \* which run of the program this is
    fs0,             \* the tree when this run started
    prev             \* the previous run: whether it completed, whether it left
                     \* the tree as it found it, and the groups it settled on

vars == <<fs, options, phase, files, calculatedSha1, pc, duplicatesMap, tasks,
          out, fsLog, exitCode, runNo, fs0, prev>>

Line(text, a, b, p, q) == [text |-> text, a |-> a, b |-> b, p |-> p, q |-> q]
Msg(text) == Line(text, 0, 0, <<>>, <<>>)

NoPrev == [ran |-> FALSE, done |-> FALSE, same |-> FALSE, plan |-> {}]

ContentIndex(c) == CHOOSE i \in 1..Len(AllContents) : AllContents[i] = c

\* The program compares contents only through their digests, so a tree is
\* taken once per pattern of equal contents: a path's content is one an
\* earlier path holds, or the first content not used so far.
FirstUse(tree) ==
    \A i \in 1..Len(Universe) :
        Universe[i] \in DOMAIN tree =>
            \/ ContentIndex(tree[Universe[i]].content) = 1
            \/ \E j \in 1..(i - 1) :
                   /\ Universe[j] \in DOMAIN tree
                   /\ ContentIndex(tree[Universe[j]].content) + 1
                        >= ContentIndex(tree[Universe[i]].content)

Trees == {t \in [Paths -> {RegularFile(c) : c \in Contents}] : FirstUse(t)}

Init ==
    /\ fs \in Trees
    /\ options \in [dryRun : BOOLEAN, pattern : Patterns]
    /\ phase = "start"
    /\ files = <<>>
    /\ calculatedSha1 = <<>>
    /\ pc = <<>>
    /\ duplicatesMap = <<>>
    /\ tasks = <<>>
    /\ out = <<>>
    /\ fsLog = <<>>
    /\ exitCode = -1
    /\ runNo = 1
    /\ fs0 = fs
    /\ prev = NoPrev

\* ------------------------------------------------------- the Map<sha, list>
\* duplicatesMap is the Map's entry list in insertion order; a deleted entry
\* is emptied in place (sha = "") and skipped, as the language defines it.
Entry(sha, list) == [sha |-> sha, list |-> list]
Tombstone == Entry("", <<>>)

Live(entries) == SelectSeq(entries, LAMBDA e : e.sha # "")

\* Map.prototype.size
MapSize(entries) == Len(Live(entries))

\* index of the entry of key `sha`, 0 when the Map has none
MapFind(entries, sha) ==
    IF \E j \in 1..Len(entries) : entries[j].sha = sha
    THEN CHOOSE j \in 1..Len(entries) : entries[j].sha = sha
    ELSE 0

\* Map.prototype.delete of the entry at position j
MapDelete(entries, j) == [entries EXCEPT ![j] = Tombstone]

\* MapInsert with the list always created and set: the update of a group
\* that exists is lost
MapInsert_lost(entries, sha, file) ==
    LET j == MapFind(entries, sha)
    IN  IF j = 0
        THEN Append(entries, Entry(sha, <<file>>))
        ELSE [entries EXCEPT ![j].list = <<file>>]

\* lines 114-119: get, set when absent, push
MapInsert(entries, sha, file) ==
    LET j == MapFind(entries, sha)
    IN  IF j = 0
        THEN Append(entries, Entry(sha, <<file>>))
        ELSE [entries EXCEPT ![j].list = Append(@, file)]

\* removeUnique: the keys() iterator walks the entry list by position while
\* the loop body deletes; an emptied entry leaves the later positions alone.
RECURSIVE RemoveUniqueFrom(_, _)
RemoveUniqueFrom(entries, i) ==
    IF i > Len(entries) THEN Live(entries)
    ELSE IF entries[i].sha # "" /\ Len(entries[i].list) = 1
         THEN RemoveUniqueFrom(MapDelete(entries, i), i + 1)
         ELSE RemoveUniqueFrom(entries, i + 1)

\* removeUnique over a list that closes up on deletion while the position
\* moves on: the entry after a deleted one is skipped
RECURSIVE RemoveUniqueSplice(_, _)
RemoveUniqueSplice(entries, i) ==
    IF i > Len(entries) THEN entries
    ELSE IF Len(entries[i].list) = 1
         THEN RemoveUniqueSplice(SubSeq(entries, 1, i - 1)
                                   \o SubSeq(entries, i + 1, Len(entries)),
                                 i + 1)
         ELSE RemoveUniqueSplice(entries, i + 1)

removeUnique_splice(entries) == RemoveUniqueSplice(entries, 1)

removeUnique(entries) == RemoveUniqueFrom(entries, 1)

\* ------------------------------------------------------------ console
ErrorLine(what, g, k, p) == Line("Error", g, k, p, <<what>>)

\* printDuplicates: one line per copy, group by group
RECURSIVE PrintGroup(_, _, _)
PrintGroup(fl, list, k) ==
    IF k > Len(list) THEN <<>>
    ELSE <<Line("->", 0, 0, fl[list[k]],
                Relative(Dirname(fl[list[k]]), fl[list[1]]))>>
         \o PrintGroup(fl, list, k + 1)

RECURSIVE PrintFrom(_, _, _)
PrintFrom(fl, entries, g) ==
    IF g > Len(entries) THEN <<>>
    ELSE PrintGroup(fl, entries[g].list, 2) \o PrintFrom(fl, entries, g + 1)

printDuplicates(fl, entries) == PrintFrom(fl, entries, 1)

\* lines 68-73: the counts run() prints between hashing and applying
SummaryLines(totalFiles, uniqueFiles, duplicatedSourceFiles) ==
    << Line("Found unique files", uniqueFiles, 0, <<>>, <<>>),
       Line("Found files with copies", duplicatedSourceFiles,
            totalFiles - uniqueFiles - duplicatedSourceFiles, <<>>, <<>>) >>

\* ------------------------------------------------------------ actions
Handles == 1..Len(files)
Groups == 1..Len(duplicatesMap)

\* DiscoveredFile.sha1 up to its await: the read is issued unless a digest
\* is cached
Sha1Start(cached) == IF cached = "" THEN "reading" ELSE "hashed"

\* run(), lines 60-67: scan, then populateDuplicates starts one
\* detectDuplicate per handle, each running up to its file read
run ==
    /\ phase = "start"
    /\ LET fl == scanFiles(fs, options.pattern)
       IN  /\ files' = fl
           /\ calculatedSha1' = [i \in 1..Len(fl) |-> ""]
           /\ pc' = [i \in 1..Len(fl) |-> Sha1Start("")]
           /\ out' = out \o << Msg("Scanning..."),
                               Line("Matched files", Len(fl), 0, <<>>, <<>>),
                               Msg("Looking for duplicates...") >>
    /\ phase' = "hashing"
    /\ UNCHANGED <<fs, options, duplicatesMap, tasks, fsLog, exitCode, runNo,
                   fs0, prev>>

\* the top-level catch: print, process.exit(1)
Abort(line) ==
    /\ phase' = "error"
    /\ exitCode' = 1
    /\ out' = Append(out, line)

\* glob reports an error: scanFiles rejects
scanFail ==
    /\ phase = "start"
    /\ Abort(ErrorLine("glob", 0, 0, <<>>))
    /\ UNCHANGED <<fs, options, files, calculatedSha1, pc, duplicatesMap,
                   tasks, fsLog, runNo, fs0, prev>>

\* sha1(), lines 22-26: the read completes, the digest is cached
ReadOk(i) ==
    /\ phase = "hashing"
    /\ pc[i] = "reading"
    /\ ReadTarget(fs, files[i]).kind = "file"
    /\ calculatedSha1' =
           [calculatedSha1 EXCEPT ![i] = Sha1(ReadTarget(fs, files[i]).content)]
    /\ pc' = [pc EXCEPT ![i] = "hashed"]
    /\ UNCHANGED <<fs, options, phase, files, duplicatesMap, tasks, out, fsLog,
                   exitCode, runNo, fs0, prev>>

\* ReadFail with the error caught per file and only reported
ReadFail_skip(i) ==
    /\ phase = "hashing"
    /\ pc[i] = "reading"
    /\ pc' = [pc EXCEPT ![i] = "failed"]
    /\ out' = Append(out, ErrorLine("read", 0, i, files[i]))
    /\ UNCHANGED <<fs, options, phase, files, calculatedSha1, duplicatesMap,
                   tasks, fsLog, exitCode, runNo, fs0, prev>>

\* the read fails: sha1 rejects, Promise.all rejects, run rejects
ReadFail(i) ==
    /\ phase = "hashing"
    /\ pc[i] = "reading"
    /\ pc' = [pc EXCEPT ![i] = "failed"]
    /\ Abort(ErrorLine("read", 0, i, files[i]))
    /\ UNCHANGED <<fs, options, files, calculatedSha1, duplicatesMap, tasks,
                   fsLog, runNo, fs0, prev>>

\* detectDuplicate after its await, lines 114-119
detectDuplicate(i) ==
    /\ phase = "hashing"
    /\ pc[i] = "hashed"
    /\ duplicatesMap' = MapInsert(duplicatesMap, calculatedSha1[i], i)
    /\ pc' = [pc EXCEPT ![i] = "done"]
    /\ UNCHANGED <<fs, options, phase, files, calculatedSha1, tasks, out, fsLog,
                   exitCode, runNo, fs0, prev>>

\* Promise.all of populateDuplicates has resolved
Populated == phase = "hashing" /\ \A i \in Handles : pc[i] = "done"

\* TaskStart with the two calls of the loop body swapped: symlink first
TaskStart_linkFirst(list) ==
    IF Len(list) >= 2 THEN [k |-> 2, op |-> "symlink"] ELSE [k |-> 2, op |-> "done"]

\* TaskStart with the loop running over the whole list, the source included
TaskStart_fromSrc(list) ==
    IF Len(list) >= 1 THEN [k |-> 1, op |-> "unlink"] ELSE [k |-> 1, op |-> "done"]

\* createSymlinksForDuplicate up to its first await
TaskStart(list) ==
    IF Len(list) >= 2 THEN [k |-> 2, op |-> "unlink"] ELSE [k |-> 2, op |-> "done"]

\* runDry that goes on to createSymlinks
runDry_apply ==
    /\ Populated
    /\ options.dryRun
    /\ LET pruned == removeUnique(duplicatesMap)
       IN  /\ duplicatesMap' = pruned
           /\ tasks' = [g \in 1..Len(pruned) |-> TaskStart(pruned[g].list)]
           /\ out' = out \o SummaryLines(Len(files), MapSize(duplicatesMap),
                                         MapSize(pruned))
                         \o printDuplicates(files, pruned)
    /\ phase' = "linking"
    /\ UNCHANGED <<fs, options, files, calculatedSha1, pc, fsLog, exitCode,
                   runNo, fs0, prev>>

\* run(), lines 68-75, dry run
runDry ==
    /\ Populated
    /\ options.dryRun
    /\ LET pruned == removeUnique(duplicatesMap)
       IN  /\ duplicatesMap' = pruned
           /\ out' = out \o SummaryLines(Len(files), MapSize(duplicatesMap),
                                         MapSize(pruned))
                         \o printDuplicates(files, pruned)
    /\ phase' = "done"
    /\ exitCode' = 0
    /\ UNCHANGED <<fs, options, files, calculatedSha1, pc, tasks, fsLog, runNo,
                   fs0, prev>>

\* run(), lines 68-78, nothing to dedupe
runNothing ==
    /\ Populated
    /\ ~options.dryRun
    /\ LET pruned == removeUnique(duplicatesMap)
       IN  /\ MapSize(pruned) = 0
           /\ duplicatesMap' = pruned
           /\ out' = out \o SummaryLines(Len(files), MapSize(duplicatesMap),
                                         MapSize(pruned))
                         \o <<Msg("Nothing to dedupe")>>
    /\ phase' = "done"
    /\ exitCode' = 0
    /\ UNCHANGED <<fs, options, files, calculatedSha1, pc, tasks, fsLog, runNo,
                   fs0, prev>>

\* runCreateSymlinks with populateDuplicates not awaited
runCreateSymlinks_noAwait ==
    /\ phase = "hashing"
    /\ ~options.dryRun
    /\ LET pruned == removeUnique(duplicatesMap)
       IN  /\ MapSize(pruned) # 0
           /\ duplicatesMap' = pruned
           /\ tasks' = [g \in 1..Len(pruned) |-> TaskStart(pruned[g].list)]
           /\ out' = out \o SummaryLines(Len(files), MapSize(duplicatesMap),
                                         MapSize(pruned))
                         \o <<Msg("Creating symlinks...")>>
    /\ phase' = "linking"
    /\ UNCHANGED <<fs, options, files, calculatedSha1, pc, fsLog, exitCode,
                   runNo, fs0, prev>>

\* run(), lines 68-81: createSymlinks starts one task per group
runCreateSymlinks ==
    /\ Populated
    /\ ~options.dryRun
    /\ LET pruned == removeUnique(duplicatesMap)
       IN  /\ MapSize(pruned) # 0
           /\ duplicatesMap' = pruned
           /\ tasks' = [g \in 1..Len(pruned) |-> TaskStart(pruned[g].list)]
           /\ out' = out \o SummaryLines(Len(files), MapSize(duplicatesMap),
                                         MapSize(pruned))
                         \o <<Msg("Creating symlinks...")>>
    /\ phase' = "linking"
    /\ UNCHANGED <<fs, options, files, calculatedSha1, pc, fsLog, exitCode,
                   runNo, fs0, prev>>

\* the handle a group's task is working on, and the group's source
Dupe(g) == files[duplicatesMap[g].list[tasks[g].k]]
Src(g) == files[duplicatesMap[g].list[1]]

FsOp(op, p, g) == [op |-> op, path |-> p, group |-> g]

\* the loop of lines 105-110 moves to the next copy, or the task ends
TaskNext(list, k) ==
    IF k + 1 > Len(list) THEN [k |-> k, op |-> "done"]
    ELSE [k |-> k + 1, op |-> "unlink"]

\* UnlinkOk with the symlink call left out: the loop moves on after the unlink
UnlinkOk_noLink(g) ==
    /\ phase = "linking"
    /\ tasks[g].op = "unlink"
    /\ fs[Dupe(g)].kind # "none"
    /\ fs' = [fs EXCEPT ![Dupe(g)] = Missing]
    /\ fsLog' = Append(fsLog, FsOp("unlink", Dupe(g), g))
    /\ tasks' = [tasks EXCEPT ![g] = TaskNext(duplicatesMap[g].list, tasks[g].k)]
    /\ UNCHANGED <<options, phase, files, calculatedSha1, pc, duplicatesMap,
                   out, exitCode, runNo, fs0, prev>>

\* line 106 completes
UnlinkOk(g) ==
    /\ phase = "linking"
    /\ tasks[g].op = "unlink"
    /\ fs[Dupe(g)].kind # "none"
    /\ fs' = [fs EXCEPT ![Dupe(g)] = Missing]
    /\ fsLog' = Append(fsLog, FsOp("unlink", Dupe(g), g))
    /\ tasks' = [tasks EXCEPT ![g].op = "symlink"]
    /\ UNCHANGED <<options, phase, files, calculatedSha1, pc, duplicatesMap,
                   out, exitCode, runNo, fs0, prev>>

\* UnlinkFail with the error caught per copy: reported, and the loop goes on
UnlinkFail_skip(g) ==
    /\ phase = "linking"
    /\ tasks[g].op = "unlink"
    /\ tasks' = [tasks EXCEPT ![g] = TaskNext(duplicatesMap[g].list, tasks[g].k)]
    /\ out' = Append(out, ErrorLine("unlink", g, tasks[g].k, Dupe(g)))
    /\ UNCHANGED <<fs, options, phase, files, calculatedSha1, pc,
                   duplicatesMap, fsLog, exitCode, runNo, fs0, prev>>

\* line 106 throws
UnlinkFail(g) ==
    /\ phase = "linking"
    /\ tasks[g].op = "unlink"
    /\ tasks' = [tasks EXCEPT ![g].op = "failed"]
    /\ Abort(ErrorLine("unlink", g, tasks[g].k, Dupe(g)))
    /\ UNCHANGED <<fs, options, files, calculatedSha1, pc, duplicatesMap,
                   fsLog, runNo, fs0, prev>>

\* SymlinkOk with the target taken relative to the copy's path, not to its
\* directory
SymlinkOk_fromPath(g) ==
    /\ phase = "linking"
    /\ tasks[g].op = "symlink"
    /\ fs[Dupe(g)].kind = "none"
    /\ fs' = [fs EXCEPT ![Dupe(g)] = SymLink(Relative(Dupe(g), Src(g)))]
    /\ fsLog' = Append(fsLog, FsOp("symlink", Dupe(g), g))
    /\ tasks' = [tasks EXCEPT ![g] = TaskNext(duplicatesMap[g].list, tasks[g].k)]
    /\ UNCHANGED <<options, phase, files, calculatedSha1, pc, duplicatesMap,
                   out, exitCode, runNo, fs0, prev>>

\* lines 107-109 complete
SymlinkOk(g) ==
    /\ phase = "linking"
    /\ tasks[g].op = "symlink"
    /\ fs[Dupe(g)].kind = "none"
    /\ fs' = [fs EXCEPT ![Dupe(g)] =
                  SymLink(Relative(Dirname(Dupe(g)), Src(g)))]
    /\ fsLog' = Append(fsLog, FsOp("symlink", Dupe(g), g))
    /\ tasks' = [tasks EXCEPT ![g] = TaskNext(duplicatesMap[g].list, tasks[g].k)]
    /\ UNCHANGED <<options, phase, files, calculatedSha1, pc, duplicatesMap,
                   out, exitCode, runNo, fs0, prev>>

\* lines 107-109 throw
SymlinkFail(g) ==
    /\ phase = "linking"
    /\ tasks[g].op = "symlink"
    /\ tasks' = [tasks EXCEPT ![g].op = "failed"]
    /\ Abort(ErrorLine("symlink", g, tasks[g].k, Dupe(g)))
    /\ UNCHANGED <<fs, options, files, calculatedSha1, pc, duplicatesMap,
                   fsLog, runNo, fs0, prev>>

\* runFinished with createSymlinks not awaited
runFinished_noAwait ==
    /\ phase = "linking"
    /\ out' = Append(out, Msg("Deduplication finished"))
    /\ phase' = "done"
    /\ exitCode' = 0
    /\ UNCHANGED <<fs, options, files, calculatedSha1, pc, duplicatesMap,
                   tasks, fsLog, runNo, fs0, prev>>

\* run(), line 82: Promise.all of createSymlinks has resolved
runFinished ==
    /\ phase = "linking"
    /\ \A g \in Groups : tasks[g].op = "done"
    /\ out' = Append(out, Msg("Deduplication finished"))
    /\ phase' = "done"
    /\ exitCode' = 0
    /\ UNCHANGED <<fs, options, files, calculatedSha1, pc, duplicatesMap,
                   tasks, fsLog, runNo, fs0, prev>>

\* what a Map of groups makes of the tree: per group its source and copies
Plan(fl, entries) ==
    {[src |-> fl[entries[g].list[1]],
      dupes |-> {fl[entries[g].list[k]] : k \in 2..Len(entries[g].list)}] :
        g \in 1..Len(entries)}

\* the program is started again on the tree the last run left (line 143:
\* a new Main per invocation), with the same patterns
Rerun ==
    /\ phase \in {"done", "error"}
    /\ runNo < MaxRuns
    /\ prev' = [ran |-> TRUE, done |-> phase = "done", same |-> fs = fs0,
                plan |-> IF phase = "done" THEN Plan(files, duplicatesMap) ELSE {}]
    /\ runNo' = runNo + 1
    /\ options' \in [dryRun : BOOLEAN, pattern : {options.pattern}]
    /\ phase' = "start"
    /\ files' = <<>>
    /\ calculatedSha1' = <<>>
    /\ pc' = <<>>
    /\ duplicatesMap' = <<>>
    /\ tasks' = <<>>
    /\ out' = <<>>
    /\ fsLog' = <<>>
    /\ exitCode' = -1
    /\ fs0' = fs
    /\ UNCHANGED fs

Next ==
    \/ run
    \/ scanFail
    \/ \E i \in Handles : ReadOk(i)
    \/ \E i \in Handles : ReadFail(i)
    \/ \E i \in Handles : detectDuplicate(i)
    \/ runDry
    \/ runNothing
    \/ runCreateSymlinks
    \/ \E g \in Groups : UnlinkOk(g)
    \/ \E g \in Groups : UnlinkFail(g)
    \/ \E g \in Groups : SymlinkOk(g)
    \/ \E g \in Groups : SymlinkFail(g)
    \/ runFinished
    \/ Rerun

Spec == Init /\ [][Next]_vars

\* ------------------------------------------------------------ properties
\* what handle i's file holds
ContentOf(i) == ReadTarget(fs, files[i]).content

\* the places <<g, k>> of the Map's lists
Places == {gk \in Groups \X (1..Len(files)) :
              gk[2] <= Len(duplicatesMap[gk[1]].list)}

At(gk) == duplicatesMap[gk[1]].list[gk[2]]

HasLine(text) == \E n \in 1..Len(out) : out[n].text = text

\* the groups are settled: hashing is over (before or after removeUnique)
Grouped == Populated \/ phase \in {"linking", "done"}

\* C1: once every hashing task has completed, whatever the interleaving, the
\* Map has exactly one group per distinct content, every scanned file is at
\* exactly one place, in the group keyed by the digest of its own content,
\* and files of distinct content never share a group.
C1_OneGroupPerContent ==
    Populated =>
        /\ \A i \in Handles : Cardinality({gk \in Places : At(gk) = i}) = 1
        /\ \A gk \in Places : duplicatesMap[gk[1]].sha = Sha1(ContentOf(At(gk)))
        /\ \A g, h \in Groups :
               duplicatesMap[g].sha = duplicatesMap[h].sha => g = h
        /\ Len(duplicatesMap) = Cardinality({ContentOf(i) : i \in Handles})
        /\ \A gk, hl \in Places :
               gk[1] = hl[1] => ContentOf(At(gk)) = ContentOf(At(hl))

\* C1 witness: all tasks done, two groups, and a group of two or more
\* members whose reads completed against discovery order.
C1_Witness ==
    /\ Populated
    /\ Len(duplicatesMap) >= 2
    /\ \E g \in Groups :
           /\ Len(duplicatesMap[g].list) >= 2
           /\ duplicatesMap[g].list[1] > duplicatesMap[g].list[2]

\* C2: in every group the canonical member (the first of the list) is the
\* member that comes first in discovery order, whatever the order in which
\* the reads complete.
C2_CanonicalIsFirstDiscovered ==
    Grouped =>
        \A gk \in Places : duplicatesMap[gk[1]].list[1] <= At(gk)

\* C3: a run started on the tree, and with the scan, of the run before it
\* settles on the same canonical member and the same copies for every group.
C3_SameChoiceAcrossRuns ==
    (prev.ran /\ prev.done /\ prev.same /\ phase = "done") =>
        Plan(files, duplicatesMap) = prev.plan

RECURSIVE RedundantCopies(_, _)
RedundantCopies(entries, g) ==
    IF g > Len(entries) THEN 0
    ELSE (Len(entries[g].list) - 1) + RedundantCopies(entries, g + 1)

\* C4: the number of copies the summary reports is the number of redundant
\* copies, the sum over the duplicate groups of (size - 1).
C4_ReportedCopies ==
    \A n \in 1..Len(out) :
        out[n].text = "Found files with copies" =>
            out[n].b = RedundantCopies(duplicatesMap, 1)

\* the copies of group g, as places
Copies == {gk \in Places : gk[2] >= 2}

\* C5: after a non-dry run that finished without error, every group's
\* canonical path is the regular file it was, and every copy's path is a
\* symbolic link whose target, resolved from the copy's directory, is the
\* canonical path; reading the copy's path yields the canonical content.
C5_CopiesLinkToCanonical ==
    (phase = "done" /\ ~options.dryRun /\ exitCode = 0) =>
        /\ \A g \in Groups :
               /\ fs[Src(g)].kind = "file"
               /\ fs[Src(g)] = fs0[Src(g)]
        /\ \A gk \in Copies :
               LET p == files[At(gk)]
               IN  /\ fs[p].kind = "link"
                   /\ Resolve(Dirname(p), fs[p].target) = Src(gk[1])
                   /\ ReadTarget(fs, p) = fs0[Src(gk[1])]
                   /\ ReadTarget(fs, p).content = fs0[p].content

\* C5 witness: a finished non-dry run that linked a copy to a canonical file
\* in another directory, upwards and downwards.
C5_Witness ==
    /\ phase = "done" /\ ~options.dryRun /\ exitCode = 0
    /\ \E gk \in Copies : Head(fs[files[At(gk)]].target) = ".."
    /\ \E gk \in Copies : Head(fs[files[At(gk)]].target) = "d"

\* C6: a dry run issues no unlink and no symlink: the tree stays as the run
\* found it, for any number of duplicate groups.
C6_DryRunChangesNothing ==
    options.dryRun => (fs = fs0 /\ fsLog = <<>> /\ tasks = <<>>)

\* C6 witness: a completed dry run that reported copies of two groups.
C6_Witness ==
    /\ options.dryRun
    /\ phase = "done"
    /\ Len(duplicatesMap) >= 2
    /\ HasLine("->")

AtLeastTwo(e) == Len(e.list) >= 2

\* C7: removeUnique leaves exactly the groups of two or more members, in
\* their order: no singleton stays, no larger group goes.
C7_RemoveUniqueExact ==
    [][(Populated /\ phase' # "hashing") =>
           duplicatesMap' = SelectSeq(duplicatesMap, AtLeastTwo)]_vars

UniqueFilesReported ==
    IF HasLine("Found unique files")
    THEN out[CHOOSE n \in 1..Len(out) : out[n].text = "Found unique files"].a
    ELSE 0

\* C7 witness: removeUnique has deleted two singleton groups out of a Map of
\* three groups and kept the third.
C7_Witness ==
    /\ phase \in {"linking", "done"}
    /\ UniqueFilesReported = 3
    /\ Len(duplicatesMap) = 1

\* whether the symlink call for place gk has completed
Linked(gk) ==
    \E n \in 1..Len(fsLog) :
        fsLog[n] = FsOp("symlink", files[At(gk)], gk[1])

\* C8: a non-dry run with zero duplicate groups (zero matched files
\* included) changes nothing in the tree, says there is nothing to do and
\* never says it finished; a run says it finished only with at least one
\* group and after every group's task has ended, every copy linked.
C8_Acknowledgments ==
    /\ (~options.dryRun /\ phase = "done" /\ Len(duplicatesMap) = 0) =>
           /\ fs = fs0
           /\ fsLog = <<>>
           /\ HasLine("Nothing to dedupe")
           /\ ~HasLine("Deduplication finished")
    /\ HasLine("Nothing to dedupe") =>
           (Len(duplicatesMap) = 0 /\ ~HasLine("Deduplication finished"))
    /\ HasLine("Deduplication finished") =>
           /\ ~options.dryRun
           /\ Len(duplicatesMap) >= 1
           /\ \A g \in Groups : tasks[g].op = "done"
           /\ \A gk \in Copies : Linked(gk)

\* C8 witness: a run that replaced the copies of a group and said it
\* finished, followed by a non-dry run that found zero groups.
C8_Witness ==
    /\ prev.done /\ prev.plan # {} /\ ~prev.same
    /\ ~options.dryRun
    /\ phase = "done"
    /\ Len(files) >= 1
    /\ HasLine("Nothing to dedupe")

\* C9: once a read has failed the process is in the error state with exit
\* status 1, and no unlink or symlink is performed in that run, whatever the
\* other hashing tasks had reached.
C9_ReadFailureAborts ==
    (\E i \in Handles : pc[i] = "failed") =>
        /\ phase = "error"
        /\ exitCode = 1
        /\ fsLog = <<>>
        /\ tasks = <<>>
        /\ fs = fs0

\* C9 witness: a read failed while another task had inserted its file, one
\* had its digest and one was still reading.
C9_Witness ==
    /\ \E i \in Handles : pc[i] = "failed"
    /\ \E i \in Handles : pc[i] = "done"
    /\ \E i \in Handles : pc[i] = "hashed"
    /\ \E i \in Handles : pc[i] = "reading"

\* the position in its group's list of the copy at path p
PlaceOf(g, p) ==
    CHOOSE k \in 1..Len(duplicatesMap[g].list) : files[duplicatesMap[g].list[k]] = p

ReplaceErrors ==
    {n \in 1..Len(out) :
        out[n].text = "Error" /\ out[n].q \in {<<"unlink">>, <<"symlink">>}}

\* C10: when unlink or symlink fails for copy k of group g, no later copy of
\* g is unlinked or linked, the run is in the error state and has not said
\* it finished, and every replacement completed before, in g or elsewhere,
\* is in place.
C10_ReplaceFailureAborts ==
    \A e \in ReplaceErrors :
        /\ phase = "error"
        /\ exitCode = 1
        /\ ~HasLine("Deduplication finished")
        /\ \A n \in 1..Len(fsLog) :
               fsLog[n].group = out[e].a =>
                   PlaceOf(out[e].a, fsLog[n].path) <= out[e].b
        /\ out[e].q = <<"unlink">> =>
               ~\E n \in 1..Len(fsLog) : fsLog[n].path = out[e].p
        /\ \A n \in 1..Len(fsLog) :
               fsLog[n].op = "symlink" =>
                   /\ fs[fsLog[n].path].kind = "link"
                   /\ Resolve(Dirname(fsLog[n].path), fs[fsLog[n].path].target)
                        = Src(fsLog[n].group)
                   /\ fs[Src(fsLog[n].group)].kind = "file"

\* C10 witness: a failure on a copy that is not the last of its group, with
\* a replacement completed before it.
C10_Witness ==
    \E e \in ReplaceErrors :
        /\ out[e].b < Len(duplicatesMap[out[e].a].list)
        /\ \E n \in 1..Len(fsLog) : fsLog[n].op = "symlink"

SymlinkErrors ==
    {n \in 1..Len(out) : out[n].text = "Error" /\ out[n].q = <<"symlink">>}

\* C11: delete-then-link is not atomic.  When symlink fails after the unlink
\* of the same copy succeeded, the run has ended in the error state with that
\* copy's path holding neither a file nor a link; a run that ends without a
\* failure leaves no path missing that was there when it started.
C11_FailedLinkLeavesCopyMissing ==
    /\ \A e \in SymlinkErrors :
           /\ phase = "error"
           /\ exitCode = 1
           /\ \E n \in 1..Len(fsLog) :
                  fsLog[n] = FsOp("unlink", out[e].p, out[e].a)
           /\ fs[out[e].p] = Missing
           /\ fs0[out[e].p].kind = "file"
    /\ (phase = "done" /\ exitCode = 0) =>
           \A p \in DOMAIN fs : fs0[p].kind # "none" => fs[p].kind # "none"

\* C11 witness: the run ended on a failed symlink, the copy's path is gone,
\* while an earlier copy of the same group was replaced.
C11_Witness ==
    \E e \in SymlinkErrors :
        /\ phase = "error"
        /\ fs[out[e].p] = Missing
        /\ out[e].b = 3

\* something of the apply phase has happened: a task started, an unlink or
\* symlink completed, or a dry-run line was printed
Applying == tasks # <<>> \/ fsLog # <<>> \/ HasLine("->")

\* C13: nothing of the apply phase (unlink, symlink, dry-run report line)
\* happens before every hashing task has completed and the singleton groups
\* are removed, and from then on the groups, their canonical members
\* included, stay as they are for the rest of the run.
C13_PhaseBarriers ==
    [][/\ Applying' =>
              /\ \A i \in 1..Len(files') : pc'[i] = "done"
              /\ \A g \in 1..Len(duplicatesMap') :
                     Len(duplicatesMap'[g].list) >= 2
       /\ (phase \in {"linking", "done", "error"} /\ phase' # "start") =>
              (duplicatesMap' = duplicatesMap /\ files' = files)]_vars

\* C13 witness: replacement has begun in a run whose Map lost a singleton
\* group.
C13_Witness ==
    /\ phase = "linking"
    /\ fsLog # <<>>
    /\ UniqueFilesReported > Len(duplicatesMap)

\* C14: for every copy the symlink at its path comes only after the unlink
\* of that path has succeeded, so it is never attempted on a path the
\* original still occupies; a path is unlinked at most once and linked at
\* most once in a run, however the group tasks interleave.
C14_UnlinkThenLinkOnce ==
    /\ \A n \in 1..Len(fsLog) :
           fsLog[n].op = "symlink" =>
               \E m \in 1..(n - 1) :
                   fsLog[m] = FsOp("unlink", fsLog[n].path, fsLog[n].group)
    /\ \A m, n \in 1..Len(fsLog) :
           (fsLog[m].path = fsLog[n].path /\ fsLog[m].op = fsLog[n].op) => m = n
    /\ \A g \in DOMAIN tasks :
           tasks[g].op = "symlink" =>
               /\ fs[Dupe(g)].kind = "none"
               /\ \E m \in 1..Len(fsLog) : fsLog[m] = FsOp("unlink", Dupe(g), g)
               /\ ~\E m \in 1..Len(fsLog) : fsLog[m] = FsOp("symlink", Dupe(g), g)

\* C14 witness: the tasks of two groups interleaved: both unlinks completed
\* before the first symlink.
C14_Witness ==
    /\ Len(fsLog) >= 3
    /\ fsLog[1].op = "unlink" /\ fsLog[2].op = "unlink"
    /\ fsLog[1].group # fsLog[2].group
    /\ fsLog[3] = FsOp("symlink", fsLog[2].path, fsLog[2].group)

\* the paths run() may replace: the copies of the groups, once there are tasks
CopyPaths == IF tasks = <<>> THEN {} ELSE {files[At(gk)] : gk \in Copies}

\* C15: in every state of a run, failed runs included, only paths of copies
\* are ever unlinked or linked: every other path of the tree (canonical,
\* unique, unmatched) is as the run found it, so every content a regular
\* file held at the start is still held by a regular file.
C15_OnlyCopiesTouched ==
    /\ \A n \in 1..Len(fsLog) : fsLog[n].path \in CopyPaths
    /\ \A p \in DOMAIN fs : p \notin CopyPaths => fs[p] = fs0[p]
    /\ \A g \in DOMAIN tasks : fs[Src(g)].kind = "file"
    /\ \A p \in DOMAIN fs :
           fs0[p].kind = "file" =>
               \E q \in DOMAIN fs : fs[q] = RegularFile(fs0[p].content)

\* C15 witness: a non-dry run that failed with a copy unlinked, in a tree
\* that also holds an unmatched file and a matched file of unique content.
C15_Witness ==
    /\ phase = "error"
    /\ \E p \in CopyPaths : fs[p] = Missing /\ fs0[p].kind = "file"
    /\ options.pattern = <<"*.txt">>
    /\ Len(files) = 3
    /\ Len(duplicatesMap) = 1 /\ Len(duplicatesMap[1].list) = 2

\* the previous run was not a dry run, finished, and replaced copies by links
PrevDeduplicated == prev.done /\ ~prev.same

\* C16: a non-dry run over the tree a successful run left scans every real
\* path once and none of the former copies under its own path, finds no
\* duplicate group, performs no unlink or symlink and leaves the tree as it
\* found it.
C16_SecondRunIdle ==
    (PrevDeduplicated /\ ~options.dryRun) =>
        /\ fs = fs0
        /\ fsLog = <<>>
        /\ tasks = <<>>
        /\ \A i, j \in Handles : files[i] = files[j] => i = j
        /\ \A i \in Handles : \A d \in prev.plan : files[i] \notin d.dupes
        /\ \A i \in Handles : fs[files[i]].kind = "file"
        /\ \A g \in Groups : Len(duplicatesMap[g].list) = 1
        /\ phase \notin {"linking", "error"} \/ HasLine("Error")
        /\ phase = "done" =>
               (duplicatesMap = <<>> /\ HasLine("Nothing to dedupe"))

\* C16 witness: the run before replaced two copies of one group; this
\* non-dry run scanned the canonical file and a file of other content and
\* ended with nothing to do.
C16_Witness ==
    /\ PrevDeduplicated
    /\ \E d \in prev.plan : Cardinality(d.dupes) = 2
    /\ ~options.dryRun
    /\ phase = "done"
    /\ Len(files) = 2
    /\ \E p \in DOMAIN fs : fs[p].kind = "link"

\* ------------------------------------------------- DiscoveredFile.sha1 alone
\* One handle whose sha1() is called several times, by callers that need not
\* wait for each other, while the file may be rewritten.  Here `files` holds
\* the one handle, `pc` one position per call, `fsLog` the reads issued and
\* `out` the digests the calls returned.
Sha1Init ==
    /\ fs \in Trees
    /\ files \in {<<p>> : p \in Paths}
    /\ calculatedSha1 = <<"">>
    /\ pc = <<>>
    /\ out = <<>>
    /\ fsLog = <<>>
    /\ phase = "sha1"
    /\ options = [dryRun |-> FALSE, pattern |-> <<>>]
    /\ duplicatesMap = <<>>
    /\ tasks = <<>>
    /\ exitCode = -1
    /\ runNo = 1
    /\ fs0 = fs
    /\ prev = NoPrev

Returned(c, digest) == Line("return", c, 0, <<>>, <<digest>>)

\* sha1() is called: lines 21-22 issue the read while nothing is cached,
\* line 26 returns the cached digest otherwise
Sha1Call ==
    /\ phase = "sha1"
    /\ Len(pc) < MaxCalls
    /\ LET c == Len(pc) + 1
       IN  IF Sha1Start(calculatedSha1[1]) = "reading"
           THEN /\ pc' = Append(pc, "reading")
                /\ fsLog' = Append(fsLog, FsOp("read", files[1], c))
                /\ out' = out
           ELSE /\ pc' = Append(pc, "returned")
                /\ fsLog' = fsLog
                /\ out' = Append(out, Returned(c, calculatedSha1[1]))
    /\ UNCHANGED <<fs, options, phase, files, calculatedSha1, duplicatesMap,
                   tasks, exitCode, runNo, fs0, prev>>

\* lines 22-26 of call c: its read completes, the digest is stored and
\* returned
Sha1ReadOk(c) ==
    /\ phase = "sha1"
    /\ pc[c] = "reading"
    /\ ReadTarget(fs, files[1]).kind = "file"
    /\ LET digest == Sha1(ReadTarget(fs, files[1]).content)
       IN  /\ calculatedSha1' = [calculatedSha1 EXCEPT ![1] = digest]
           /\ out' = Append(out, Returned(c, digest))
    /\ pc' = [pc EXCEPT ![c] = "returned"]
    /\ UNCHANGED <<fs, options, phase, files, duplicatesMap, tasks, fsLog,
                   exitCode, runNo, fs0, prev>>

\* line 22 of call c throws: the call rejects, nothing is cached
Sha1ReadFail(c) ==
    /\ phase = "sha1"
    /\ pc[c] = "reading"
    /\ pc' = [pc EXCEPT ![c] = "failed"]
    /\ UNCHANGED <<fs, options, phase, files, calculatedSha1, duplicatesMap,
                   tasks, out, fsLog, exitCode, runNo, fs0, prev>>

\* someone else rewrites the file
WriteFile(c) ==
    /\ phase = "sha1"
    /\ fs[files[1]] # RegularFile(c)
    /\ fs' = [fs EXCEPT ![files[1]] = RegularFile(c)]
    /\ UNCHANGED <<options, phase, files, calculatedSha1, pc, duplicatesMap,
                   tasks, out, fsLog, exitCode, runNo, fs0, prev>>

Sha1Next ==
    \/ Sha1Call
    \/ \E c \in 1..Len(pc) : Sha1ReadOk(c)
    \/ \E c \in 1..Len(pc) : Sha1ReadFail(c)
    \/ \E c \in Contents : WriteFile(c)

Sha1Spec == Sha1Init /\ [][Sha1Next]_vars

\* C12: sha1 is memoized per handle: over any calls on one handle, a call
\* issued while an earlier call's read is pending included, the file is read
\* at most once and every call returns the same digest, also when the file
\* changes after the first read.
C12_Sha1Memoized ==
    /\ Len(fsLog) <= 1
    /\ \A m, n \in 1..Len(out) : out[m].q = out[n].q

====
